---- MODULE Spec2Model ----
(***************************************************************************)
(* Transport of elasticsearch-js (src/src/Transport.ts): request dispatch, *)
(* retry orchestration, failure classification, response normalisation and *)
(* sniffing.  Every handler of the event loop is one atomic action; the    *)
(* synchronous calls a handler makes (getConnection, sniff, the recursive  *)
(* request of a retry, the once-guarded callback) are operators that take  *)
(* a world record and return the world after the call.                     *)
(***************************************************************************)
EXTENDS Integers, Sequences, FiniteSets, TLC

\* ---- bounds of the model ------------------------------------------------
MaxRetries == 1       \* largest retry budget configured or passed in params
MaxTime == 2          \* the clock Date.now() runs over 0..MaxTime
SniffInterval == 1    \* opts.sniffInterval when periodic sniffing is on
MaxSniffCalls == 1    \* direct sniff() calls the caller makes

\* ---- value spaces -------------------------------------------------------
Null == "null"
AllConns == {"c1", "c2"}
UserSlot == "u"
SniffSlots == {"s1", "s2"}
Slots == {UserSlot} \cup SniffSlots

AllStatuses == {200, 404, 500, 502, 503, 504}
ErrKinds == {"Error", "TimeoutError"}
Payloads == {"", "json", "text"}

\* An optional number is a set: {} is undefined, {n} is the number n.
Undef == {}
Truthy(x) == x # {} /\ x # {0}
\* JavaScript a || b on optional numbers
Or(a, b) == IF Truthy(a) THEN a ELSE b
\* the number an expression evaluates to; undefined compares false with > 0
Val(x) == IF x = {} THEN 0 ELSE CHOOSE n \in x : TRUE

\* observation counters saturate above every value a claim speaks of
CountCap == MaxRetries + 2
Sat(n) == IF n < CountCap THEN n + 1 ELSE CountCap

VARIABLES
  maxRetries,               \* this.maxRetries
  _sniffEnabled,            \* this._sniffEnabled
  sniffOnConnectionFault,   \* this.sniffOnConnectionFault
  input,                    \* the params object the caller will pass
  Conns,                    \* the connections the pool was built with
  Statuses,                 \* the status codes the cluster answers with
  userCalls,                \* request() calls the caller still makes
  sniffCalls,               \* direct sniff() calls the caller still makes
  abortCalls,               \* abort() calls the caller still makes
  now,                      \* Date.now()
  _isSniffing,              \* this._isSniffing
  _nextSniff,               \* this._nextSniff
  dead,                     \* connections the pool holds as dead
  req,                      \* per logical request: params object, once guard
  att,                      \* per logical request: the attempt in progress
  calls,                    \* connection.request calls issued for the
                            \* caller's request
  cbCount,                  \* invocations of the caller's callback
  out,                      \* what the caller's callback received first
  sniffOwed,                \* sniff(callback) calls made by the caller whose
                            \* callback has not been invoked
  api                       \* the call of an endpoint wrapper (src/api/api)

\* the variables of the transport
tvars == <<maxRetries, _sniffEnabled, sniffOnConnectionFault, input, Conns,
           Statuses, userCalls, sniffCalls, abortCalls, now, _isSniffing,
           _nextSniff, dead, req, att, calls, cbCount, out, sniffOwed>>

vars == <<tvars, api>>

\* ---- records ------------------------------------------------------------
NoParams ==
  [method |-> "GET", asStream |-> FALSE, ignore |-> {}, maxRetries |-> Undef,
   body |-> "none", bulkBody |-> "none", ctype |-> "none", clen |-> FALSE,
   kRA |-> Undef]

\* const request = { method: 'GET', path: this.sniffEndpoint }
SniffParams == NoParams

\* an abort() call: the HTTP call whose ClientRequest it aborted and the HTTP
\* call that was in flight when it was made (calls are numbered from 1, 0 is
\* none)
NoAbort == [called |-> FALSE, target |-> 0, inflight |-> 0]

\* first: the attempts value the first attempt read; netOnly: every HTTP call
\* so far failed at the network level; nullSel: a selection returned null;
\* guarded: a sniff() call returned at line 250 while this discovery request
\* was the one in progress; handle: the HTTP call the abort handle returned
\* to the caller closes over; abort: the caller's abort() call; cb: the
\* discovery request belongs to a sniff(callback) call of the caller
NoReq ==
  [st |-> "idle", params |-> NoParams, called |-> FALSE, first |-> 0,
   netOnly |-> TRUE, nullSel |-> FALSE, guarded |-> FALSE, handle |-> 0,
   abort |-> NoAbort, cb |-> FALSE]

\* const result = { body: null, statusCode: null, headers: null, ... }
NewResult == [statusCode |-> 0, body |-> "null", json |-> FALSE]

\* prev: the attempts value the previous attempt of the chain read;
\* prevMark: the pool call made on the previous attempt's connection;
\* inOrder: when the selection of this attempt was made in the handler of a
\* network error, markDead had been called on the failed connection
NoAtt ==
  [phase |-> "none", conn |-> Null, attempts |-> 0, prev |-> Undef,
   prevMark |-> "none", errored |-> FALSE, res |-> NewResult,
   inOrder |-> TRUE]

\* mark, emitErr, emitResp: what the delivering handler did for the request
\* before it called back
NoOut ==
  [err |-> "none", statusCode |-> 0, body |-> "null", via |-> "none",
   mark |-> "none", emitErr |-> FALSE, emitResp |-> FALSE]

\* the world a handler works on; failed is the connection whose call failed
\* with the network error the handler deals with, marked the connections the
\* handler has called markDead on so far, direct tells that the sniff() call
\* being made is the caller's and carries a callback
W ==
  [isSniffing |-> _isSniffing, nextSniff |-> _nextSniff, dead |-> dead,
   req |-> req, att |-> att, calls |-> calls,
   cbCount |-> cbCount, out |-> out, sniffOwed |-> sniffOwed,
   direct |-> FALSE,
   mark |-> [s \in Slots |-> "none"],
   emitErr |-> [s \in Slots |-> FALSE],
   emitResp |-> [s \in Slots |-> FALSE],
   failed |-> Null,
   marked |-> {},
   full |-> FALSE]

\* a discovery request of which nothing is live any more
Finished(w, x) ==
  /\ w.req[x].st = "idle" \/ w.req[x].called
  /\ w.att[x].phase = "none"

\* the slots of finished discovery requests are given back
Collect(w) ==
  [w EXCEPT
     !.req = [x \in Slots |->
                IF x \in SniffSlots /\ Finished(w, x) THEN NoReq ELSE @[x]],
     !.calls = [x \in Slots |->
                IF x \in SniffSlots /\ Finished(w, x) THEN 0 ELSE @[x]],
     !.cbCount = [x \in Slots |->
                IF x \in SniffSlots /\ Finished(w, x) THEN 0 ELSE @[x]]]

Install(w) ==
  /\ w.full = FALSE
  /\ LET c == Collect(w)
     IN /\ _isSniffing' = c.isSniffing
        /\ _nextSniff' = c.nextSniff
        /\ dead' = c.dead
        /\ req' = c.req
        /\ att' = c.att
        /\ calls' = c.calls
        /\ cbCount' = c.cbCount
        /\ out' = c.out
        /\ sniffOwed' = c.sniffOwed
  /\ UNCHANGED <<maxRetries, _sniffEnabled, sniffOnConnectionFault, input,
                 Conns, Statuses, abortCalls, now, api>>

\* lines 152 and 190 without the emit
EmitErrorSilent(w, s) == w

\* this.emit('error', ...) and this.emit('response', ...) for request s
EmitError(w, s) == [w EXCEPT !.emitErr[s] = TRUE]
EmitResponse(w, s) == [w EXCEPT !.emitResp[s] = TRUE]

\* ---- ConnectionPool and Serializer (external collaborators) ------------
\* connectionPool.markDead(connection)
MarkDead(w, s, c) ==
  [w EXCEPT !.dead = @ \cup {c}, !.mark[s] = "dead", !.marked = @ \cup {c}]

\* connectionPool.markAlive(connection)
MarkAlive(w, s, c) == [w EXCEPT !.dead = @ \ {c}, !.mark[s] = "alive"]

\* connectionPool.resurrect(now): the connection the pool is about to hand
\* out comes back when it was dead; a pool that hands out none revives none
Resurrect(d, pick) == d \ {pick}

\* connectionPool.getConnection(): a living connection, or null when every
\* connection is dead
PoolGet(d, pick) ==
  IF Conns \ d = {} THEN Null
  ELSE IF pick \in Conns \ d THEN pick
  ELSE CHOOSE c \in Conns \ d : TRUE

\* connectionPool.update(hosts): the pool is rebuilt from the hosts
PoolUpdate(w) == [w EXCEPT !.dead = {}]

\* serializer.serialize / ndserialize: a string, or a throw
SerializeFails(b) == b = "bad"
Serialize(b) == "json"
NdSerialize(b) == "ndjson"
\* serializer.deserialize(payload): throws on text that is not JSON
DeserializeFails(payload) == payload = "text"

\* the choices the pool makes in one handler: one selection for the
\* discovery request a handler may start, one for the handler's own request
Choices == [sn : Conns \cup {Null}, rq : Conns \cup {Null}]

\* ---- helpers of Transport.ts --------------------------------------------
ShouldSerialize(b) == b \in {"obj", "bad"}
IsStream(b) == b = "stream"

\* line 82
ReadAttempts(p) == Val(Or(Or(p.kRA, p.maxRetries), {maxRetries}))

\* line 84 without the null test
NoConnectionNever(c) == FALSE

\* line 84
NoConnection(c) == c = Null

\* lines 88-117 with the two branches in the other order
PrepareBodyBulkFirst(p) ==
  IF p.bulkBody # "none"
  THEN IF ShouldSerialize(p.bulkBody) /\ SerializeFails(p.bulkBody)
       THEN [ok |-> FALSE, params |-> p]
       ELSE LET b == IF ShouldSerialize(p.bulkBody)
                     THEN NdSerialize(p.bulkBody) ELSE p.bulkBody
            IN [ok |-> TRUE,
                params |-> [p EXCEPT !.body = b,
                                     !.ctype = "application/x-ndjson",
                                     !.clen = ~IsStream(b)]]
  ELSE IF p.body # "none"
  THEN IF ShouldSerialize(p.body) /\ SerializeFails(p.body)
       THEN [ok |-> FALSE, params |-> p]
       ELSE LET b == IF ShouldSerialize(p.body) THEN Serialize(p.body)
                     ELSE p.body
            IN [ok |-> TRUE,
                params |-> [p EXCEPT !.body = b,
                                     !.ctype = "application/json",
                                     !.clen = ~IsStream(b)]]
  ELSE [ok |-> TRUE, params |-> p]

\* lines 88-117: [ok, params]
PrepareBody(p) ==
  IF p.body # "none"
  THEN IF ShouldSerialize(p.body) /\ SerializeFails(p.body)
       THEN [ok |-> FALSE, params |-> p]
       ELSE LET b == IF ShouldSerialize(p.body) THEN Serialize(p.body)
                     ELSE p.body
            IN [ok |-> TRUE,
                params |-> [p EXCEPT !.body = b,
                                     !.ctype = "application/json",
                                     !.clen = ~IsStream(b)]]
  ELSE IF p.bulkBody # "none"
  THEN IF ShouldSerialize(p.bulkBody) /\ SerializeFails(p.bulkBody)
       THEN [ok |-> FALSE, params |-> p]
       ELSE LET b == IF ShouldSerialize(p.bulkBody)
                     THEN NdSerialize(p.bulkBody) ELSE p.bulkBody
            IN [ok |-> TRUE,
                params |-> [p EXCEPT !.body = b,
                                     !.ctype = "application/x-ndjson",
                                     !.clen = ~IsStream(b)]]
  ELSE [ok |-> TRUE, params |-> p]

\* lines 259-276: the callback sniff() hands to request(); callback(err) of
\* line 268 and callback(null, hosts) of line 275 reach the caller's function
\* when the call carried one
SniffCallback(w, s, err, res) ==
  LET w1 == [w EXCEPT !.isSniffing = FALSE,
                      !.nextSniff = IF _sniffEnabled THEN now + SniffInterval
                                    ELSE @,
                      !.sniffOwed = IF w.req[s].cb THEN @ - 1 ELSE @]
  IN IF err # "none" THEN EmitError(w1, s) ELSE PoolUpdate(w1)

\* the function the caller passed to request()
Deliver(w, s, err, res, via) ==
  IF s \in SniffSlots THEN SniffCallback(w, s, err, res)
  ELSE [w EXCEPT
          !.cbCount[s] = Sat(@),
          !.out[s] =
            IF w.cbCount[s] = 0
            THEN [err |-> err, statusCode |-> res.statusCode,
                  body |-> res.body, via |-> via, mark |-> w.mark[s],
                  emitErr |-> w.emitErr[s], emitResp |-> w.emitResp[s]]
            ELSE @]

\* the callback without the guard of line 80
CallbackAlways(w, s, err, res, via) ==
  Deliver([w EXCEPT !.req[s].called = TRUE], s, err, res, via)

\* line 80: callback = once(callback)
Callback(w, s, err, res, via) ==
  IF w.req[s].called THEN w
  ELSE Deliver([w EXCEPT !.req[s].called = TRUE], s, err, res, via)

\* a slot a new discovery request can use
FreeSlots(w) == {x \in SniffSlots : Finished(w, x)}

\* the discovery requests whose callback has not run yet
Running(r) == {x \in SniffSlots : r[x].st = "open" /\ ~r[x].called}

\* line 250 without the test
SniffGuardOff(w) == FALSE

\* line 250
SniffGuard(w) == w.isSniffing

\* line 250: return
TurnedAway(w) ==
  [w EXCEPT !.direct = FALSE,
            !.req = [x \in Slots |->
      IF x \in Running(w.req) THEN [@[x] EXCEPT !.guarded = TRUE] ELSE @[x]]]

\* line 81 with one result for the whole chain
ResultShared(w, s) == w.att[s].res

\* line 81: every call of request() makes its own result
ResultOf(w, s) == NewResult

RECURSIVE Request(_, _, _, _)

\* lines 249-277
Sniff(w, ch) ==
  IF SniffGuard(w) THEN TurnedAway(w)
  ELSE IF FreeSlots(w) = {} THEN [w EXCEPT !.full = TRUE]
  ELSE LET s == CHOOSE x \in FreeSlots(w) : TRUE
           w1 == [w EXCEPT !.isSniffing = TRUE,
                           !.direct = FALSE,
                           !.req[s] = [NoReq EXCEPT !.st = "open",
                                                    !.params = SniffParams,
                                                    !.cb = w.direct],
                           !.att[s] = NoAtt,
                           !.calls[s] = 0,
                           !.cbCount[s] = 0]
       IN Request(w1, s, ch, "sn")

\* lines 240-247: [w, conn]
GetConnection(w, s, ch, which) ==
  LET w1 == IF _sniffEnabled /\ now > w.nextSniff THEN Sniff(w, ch) ELSE w
      d == Resurrect(w1.dead, ch[which])
      c == PoolGet(d, ch[which])
  IN [w |-> [w1 EXCEPT !.dead = d,
                       !.req[s].nullSel = @ \/ (s = UserSlot /\ c = Null)],
      conn |-> c]

\* lines 79-131 and 232-237: one call of request(params, callback)
Request(w, s, ch, which) ==
  LET p == w.req[s].params
      attempts == ReadAttempts(p)
      retry == p.kRA # Undef
      wa == [w EXCEPT !.req[s].first =
               IF retry \/ s # UserSlot THEN @ ELSE attempts]
      g == GetConnection(wa, s, ch, which)
      b == PrepareBody(p)
  IN IF NoConnection(g.conn)
     THEN Callback([g.w EXCEPT !.att[s] = NoAtt], s,
                   "NoLivingConnectionsError", ResultOf(w, s), "select")
     ELSE IF ~b.ok
     THEN Callback([g.w EXCEPT !.att[s] = NoAtt], s,
                   "SerializationError", ResultOf(w, s), "body")
     ELSE [g.w EXCEPT
             !.req[s].params = b.params,
             !.req[s].handle = IF retry \/ s # UserSlot THEN @
                               ELSE Sat(w.calls[s]),
             !.att[s] = [NoAtt EXCEPT
                           !.phase = "inflight",
                           !.res = ResultOf(w, s),
                           !.conn = g.conn,
                           !.attempts = attempts,
                           !.prev = IF retry THEN {w.att[s].attempts}
                                    ELSE Undef,
                           !.prevMark = IF retry THEN w.mark[s] ELSE "none",
                           !.inOrder = (g.w.failed # Null =>
                                          g.w.failed \in g.w.marked)],
             !.calls[s] = IF s = UserSlot THEN Sat(@) ELSE @]

\* ---- classification helpers of the response handlers -------------------
\* line 135 left out
FailConnectionUnmarked(w, s, c) == [w EXCEPT !.failed = c]

\* line 135: the connection whose call failed is marked dead
FailConnection(w, s, c) == MarkDead([w EXCEPT !.failed = c], s, c)

\* lines 142 and 208
HasAttempts(attempts) == attempts > 0

\* lines 148-150 with every error wrapped
ClassifyErrorWrapped(kind) == "ConnectionError"

\* lines 148-150
ClassifyError(kind) ==
  IF kind = "TimeoutError" THEN "TimeoutError" ELSE "ConnectionError"

\* lines 182-185
ShouldDeserialize(p, json, payload) ==
  json /\ p.method # "HEAD" /\ payload # ""

\* lines 188 and 195
BodyOf(p, json, payload) ==
  IF ShouldDeserialize(p, json, payload) THEN "obj"
  ELSE IF p.method = "HEAD" THEN "true" ELSE payload

\* lines 200-201 without the ignore list
IgnoreHeadOnly(p, statusCode) == p.method = "HEAD" /\ statusCode = 404

\* lines 200-201
IgnoreStatusCode(p, statusCode) ==
  statusCode \in p.ignore \/ (p.method = "HEAD" /\ statusCode = 404)

\* line 204 with every status of the 5xx range
IsRetryStatusAny(statusCode) == statusCode >= 500

\* line 204
IsRetryStatus(statusCode) == statusCode \in {502, 503, 504}

\* lines 203-217 with markAlive on both branches
MarkConnectionAlive(w, s, c, dying) == MarkAlive(w, s, c)

\* lines 203-217
MarkConnection(w, s, c, dying) ==
  IF dying THEN MarkDead(w, s, c) ELSE MarkAlive(w, s, c)

\* line 220
IsErrorStatus(statusCode) == statusCode >= 400

\* lines 224-226 without the cast
FinalBodyKeep(p, statusCode, body) == body

\* lines 224-226
FinalBody(p, statusCode, body) ==
  IF p.method = "HEAD" /\ statusCode = 404 THEN "false" ELSE body

\* ---- actions ------------------------------------------------------------
\* the caller calls transport.request(params, callback)
UserRequest(ch) ==
  /\ userCalls > 0
  /\ userCalls' = userCalls - 1
  /\ LET w1 == [W EXCEPT !.req[UserSlot] =
                  [NoReq EXCEPT !.st = "open", !.params = input]]
     IN Install(Request(w1, UserSlot, ch, "rq"))
  /\ UNCHANGED sniffCalls

\* the caller calls transport.sniff(callback)
SniffCall(ch) ==
  /\ sniffCalls > 0
  /\ sniffCalls' = sniffCalls - 1
  /\ Install(Sniff([W EXCEPT !.direct = TRUE, !.sniffOwed = @ + 1], ch))
  /\ UNCHANGED userCalls

\* lines 131-154: connection.request calls back with an error
OnConnError(s, kind, ch) ==
  /\ att[s].phase = "inflight"
  /\ LET a == att[s]
         w1 == FailConnection(W, s, a.conn)
         w2 == IF sniffOnConnectionFault THEN Sniff(w1, ch) ELSE w1
     IN IF HasAttempts(a.attempts)
        THEN Install(Request(
               [w2 EXCEPT !.req[s].params.kRA = {a.attempts - 1}],
               s, ch, "rq"))
        ELSE Install(Callback(
               EmitError([w2 EXCEPT !.att[s] = NoAtt], s),
               s, ClassifyError(kind), a.res, "net"))
  /\ UNCHANGED <<userCalls, sniffCalls>>

\* lines 156-175: connection.request calls back with a response
OnResponse(s, statusCode, json) ==
  /\ att[s].phase = "inflight"
  /\ LET a == att[s]
         p == req[s].params
         res == [statusCode |-> statusCode, body |-> "null", json |-> json]
         w1 == [W EXCEPT !.req[s].netOnly = @ /\ s # UserSlot]
     IN IF p.asStream
        THEN Install(Callback(
               EmitResponse([w1 EXCEPT !.att[s] = NoAtt], s),
               s, "none", [res EXCEPT !.body = "stream"], "head"))
        ELSE Install([w1 EXCEPT !.att[s] =
                        [a EXCEPT !.phase = "stream", !.res = res]])
  /\ UNCHANGED <<userCalls, sniffCalls>>

\* line 175: response.on('error'); a stream emits nothing after 'end'
OnStreamError(s) ==
  /\ att[s].phase = "stream"
  /\ ~att[s].errored
  /\ Install(Callback([W EXCEPT !.att[s].errored = TRUE],
                      s, "ConnectionError", att[s].res, "streamError"))
  /\ UNCHANGED <<userCalls, sniffCalls>>

\* lines 171-229: response.on('end'); payload is the text the 'data'
\* handler has collected
OnEnd(s, payload, ch) ==
  /\ att[s].phase = "stream"
  /\ LET a == att[s]
         p == req[s].params
         statusCode == a.res.statusCode
         json == a.res.json
     IN IF ShouldDeserialize(p, json, payload) /\ DeserializeFails(payload)
        THEN Install(Callback(
               EmitError([W EXCEPT !.att[s] = NoAtt], s),
               s, "DeserializationError", a.res, "end"))
        ELSE
        LET res == [a.res EXCEPT !.body = BodyOf(p, json, payload)]
            ign == IgnoreStatusCode(p, statusCode)
            dying == ~ign /\ IsRetryStatus(statusCode)
            w1 == MarkConnection(W, s, a.conn, dying)
        IN IF dying /\ HasAttempts(a.attempts)
           THEN Install(Request(
                  [w1 EXCEPT !.req[s].params.kRA = {a.attempts - 1}],
                  s, ch, "rq"))
           ELSE LET w2 == EmitResponse([w1 EXCEPT !.att[s] = NoAtt], s)
                IN IF ~ign /\ IsErrorStatus(statusCode)
                   THEN Install(Callback(w2, s, "ResponseError", res, "end"))
                   ELSE Install(Callback(w2, s, "none",
                          [res EXCEPT !.body = FinalBody(p, statusCode, @)],
                          "end"))
  /\ UNCHANGED <<userCalls, sniffCalls>>

\* lines 232-237: the caller calls abort() on the handle request() returned;
\* request.abort() reaches the ClientRequest of the call that returned the
\* handle, whose handlers may still run or never run
Abort ==
  /\ abortCalls > 0
  /\ req[UserSlot].handle # 0
  /\ abortCalls' = abortCalls - 1
  /\ req' = [req EXCEPT ![UserSlot].abort =
               [called |-> TRUE,
                target |-> req[UserSlot].handle,
                inflight |-> IF att[UserSlot].phase # "none"
                             THEN calls[UserSlot] ELSE 0]]
  /\ UNCHANGED <<maxRetries, _sniffEnabled, sniffOnConnectionFault, input,
                 Conns, Statuses, userCalls, sniffCalls, now, _isSniffing,
                 _nextSniff, dead, att, calls, cbCount, out, sniffOwed, api>>

\* Date.now() advances; the transport reads the clock only for the sniff
\* schedule (line 242), so the clock of a transport without one stands still
Tick ==
  /\ _sniffEnabled
  /\ now < MaxTime
  /\ now' = now + 1
  /\ UNCHANGED <<maxRetries, _sniffEnabled, sniffOnConnectionFault, input,
                 Conns, Statuses, userCalls, sniffCalls, abortCalls,
                 _isSniffing, _nextSniff, dead, req, att, calls, cbCount, out,
                 sniffOwed, api>>

\* ---- endpoint wrappers (src/api/api) ------------------------------------
ApiNames == {"snapshotGetRepository", "xpackMigrationGetAssistance"}

\* the first argument of a wrapper: an object, a function or null/undefined;
\* part is params.repository or params.index, keys are the other keys of the
\* object, ignore is <<>> (absent), a number or a list
NoApiParams ==
  [kind |-> "object", body |-> Null, method |-> Null, headers |-> Null,
   ignore |-> <<>>, requestTimeout |-> Undef, part |-> Null, keys |-> {}]

NoRequest ==
  [method |-> "none", path |-> <<>>, querystring |-> {}, body |-> Null,
   headers |-> Null, ignore |-> <<>>, requestTimeout |-> Undef]

NoApi ==
  [name |-> "none", params |-> NoApiParams, callback |-> Null, st |-> "idle",
   form |-> "none", request |-> NoRequest, err |-> "none",
   settled |-> "none"]

\* the heads of the lists of lines 38-55 and 31-40
acceptedQuerystring(name) ==
  IF name = "snapshotGetRepository" THEN <<"master_timeout", "local">>
  ELSE <<"allow_no_indices", "expand_wildcards">>

acceptedQuerystringCamelCased(name) ==
  IF name = "snapshotGetRepository" THEN <<"masterTimeout", "local">>
  ELSE <<"allowNoIndices", "expandWildcards">>

\* Array.prototype.indexOf, counted from 1; 0 when absent
IndexOf(list, key) ==
  IF \E i \in 1..Len(list) : list[i] = key
  THEN CHOOSE i \in 1..Len(list) :
         list[i] = key /\ \A j \in 1..(i - 1) : list[j] # key
  ELSE 0

\* lines 57-67 and 42-52: the keys of the querystring object
Querystring(name, keys) ==
  {k \in keys : IndexOf(acceptedQuerystring(name), k) # 0} \cup
  {acceptedQuerystring(name)[IndexOf(acceptedQuerystringCamelCased(name), k)] :
     k \in {x \in keys :
              /\ IndexOf(acceptedQuerystring(name), x) = 0
              /\ IndexOf(acceptedQuerystringCamelCased(name), x) # 0}}

EncodeURIComponent(part) == IF part = "a/b" THEN "a%2Fb" ELSE part

\* lines 89 and 74: parts, then filter(Boolean).map(encodeURIComponent)
Parts(name, part) ==
  (IF name = "snapshotGetRepository" THEN <<"_snapshot">>
   ELSE <<"_xpack", "migration", "assistance">>)
  \o (IF part = Null THEN <<>> ELSE <<EncodeURIComponent(part)>>)

\* lines 83-86 and 68-71
IgnoreOf(ignore) ==
  IF ignore = <<>> THEN <<>> ELSE <<ignore[2]>>

\* lines 88-98 and 73-83
BuildRequest(name, p) ==
  [method |-> IF p.method = Null THEN "GET" ELSE p.method,
   path |-> Parts(name, p.part),
   querystring |-> Querystring(name, p.keys),
   body |-> Null,
   headers |-> p.headers,
   ignore |-> IgnoreOf(p.ignore),
   requestTimeout |-> Or(p.requestTimeout, Undef)]

\* lines 27-100 and 28-85: the wrapper once it has params and a callback
CallbackForm(name, p) ==
  IF name = "snapshotGetRepository" /\ p.body # Null
  THEN [err |-> "ConfigurationError", request |-> NoRequest]
  ELSE IF p.headers # Null /\ p.headers # "object"
  THEN [err |-> "ConfigurationError", request |-> NoRequest]
  ELSE [err |-> "none", request |-> BuildRequest(name, p)]

\* lines 13-25 and 14-26: [form, err, request]; the promise form calls the
\* wrapper again with the resolver as its only argument
Wrapper(name, params, callback) ==
  LET shifted == params.kind \in {"function", "null"}
      cb == IF shifted THEN (IF params.kind = "function" THEN "function"
                             ELSE Null)
            ELSE callback
      p == IF shifted THEN NoApiParams ELSE params
  IN IF cb = Null
     THEN [form |-> "promise"] @@ CallbackForm(name, NoApiParams)
     ELSE [form |-> "callback"] @@ CallbackForm(name, p)

snapshotGetRepository(params, callback) ==
  Wrapper("snapshotGetRepository", params, callback)

xpackMigrationGetAssistance(params, callback) ==
  Wrapper("xpackMigrationGetAssistance", params, callback)

\* the caller calls the wrapper; a ConfigurationError settles the call at
\* once, otherwise makeRequest has the request
ApiCall ==
  /\ api.st = "idle"
  /\ LET r == IF api.name = "snapshotGetRepository"
              THEN snapshotGetRepository(api.params, api.callback)
              ELSE xpackMigrationGetAssistance(api.params, api.callback)
     IN api' = [api EXCEPT
                  !.form = r.form,
                  !.request = r.request,
                  !.err = r.err,
                  !.st = IF r.err = "none" THEN "sent" ELSE "done",
                  !.settled = IF r.err = "none" THEN "none"
                              ELSE IF r.form = "promise" THEN "rejected"
                              ELSE "called"]
  /\ UNCHANGED tvars

\* makeRequest calls back: lines 21-23 and 22-24 for the promise form
MakeRequestDone(err) ==
  /\ api.st = "sent"
  /\ api' = [api EXCEPT
               !.st = "done",
               !.err = err,
               !.settled = IF api.form = "callback" THEN "called"
                           ELSE IF err # "none" THEN "rejected"
                           ELSE "resolved"]
  /\ UNCHANGED tvars

\* ---- inputs -------------------------------------------------------------
RetryParams == {Undef} \cup {{n} : n \in 0..MaxRetries}
IgnoreLists == {{}, {404, 500, 503}}

\* requests without a body: method, stream mode, ignore list, retry budget
InputsResp ==
  {[NoParams EXCEPT !.method = m, !.asStream = st, !.ignore = ig,
                    !.maxRetries = mr] :
     m \in {"GET", "HEAD"}, st \in BOOLEAN, ig \in IgnoreLists,
     mr \in RetryParams}

\* requests with a document body, a bulk body or both
Bodies == {<<"obj", "none">>, <<"none", "obj">>, <<"obj", "obj">>,
           <<"str", "obj">>, <<"bad", "none">>, <<"none", "bad">>,
           <<"none", "str">>}
InputsBody ==
  {[NoParams EXCEPT !.method = "POST", !.body = b[1], !.bulkBody = b[2]] :
     b \in Bodies}

\* the arguments of a wrapper call
ApiParams ==
  {[NoApiParams EXCEPT !.kind = "function"],
   [NoApiParams EXCEPT !.kind = "null"]} \cup
  {[NoApiParams EXCEPT !.body = b, !.method = m, !.headers = h,
                       !.ignore = ig, !.requestTimeout = t, !.part = pt,
                       !.keys = ks] :
     b \in {Null, "object"}, m \in {Null, "HEAD"},
     h \in {Null, "object", "string"},
     ig \in {<<>>, <<"number", 404>>, <<"list", 404>>},
     t \in {Undef, {30}}, pt \in {Null, "r", "a/b"},
     ks \in {{}, {"local"}, {"masterTimeout", "allowNoIndices", "other"}}}

\* no wrapper is called
NoApiCall == api = NoApi

\* lines 59-77, with the request the caller is about to make
InitState ==
  /\ now = 0
  /\ _isSniffing = FALSE
  /\ _nextSniff = IF _sniffEnabled THEN now + SniffInterval ELSE 0
  /\ dead = {}
  /\ req = [s \in Slots |-> NoReq]
  /\ att = [s \in Slots |-> NoAtt]
  /\ calls = [s \in Slots |-> 0]
  /\ cbCount = [s \in Slots |-> 0]
  /\ out = [s \in Slots |-> NoOut]
  /\ sniffOwed = 0

\* a transport that does not sniff, and one request
InitPlain ==
  /\ maxRetries \in 0..MaxRetries
  /\ _sniffEnabled = FALSE
  /\ sniffOnConnectionFault = FALSE
  /\ userCalls = 1
  /\ sniffCalls = 0
  /\ abortCalls = 0
  /\ input \in InputsResp \cup InputsBody
  /\ Conns = AllConns
  /\ Statuses = AllStatuses
  /\ InitState
  /\ NoApiCall

\* a one-node cluster that answers a plain GET with 200 or 503
InitSmall ==
  /\ input = NoParams
  /\ Conns = {"c1"}
  /\ Statuses = {200, 503}
  /\ InitState
  /\ NoApiCall

\* a transport that does not retry: one request next to the sniffs it
\* triggers and the sniffs made on demand
InitQuiet ==
  /\ maxRetries = 0
  /\ _sniffEnabled \in BOOLEAN
  /\ sniffOnConnectionFault \in BOOLEAN
  /\ userCalls = 1
  /\ sniffCalls \in 0..MaxSniffCalls
  /\ abortCalls = 0
  /\ InitSmall

\* a transport that retries: the sniffs made on demand, no request; it
\* sniffs on a schedule or on a connection fault, not both
InitAlone ==
  /\ maxRetries \in 1..MaxRetries
  /\ _sniffEnabled \in BOOLEAN
  /\ sniffOnConnectionFault \in BOOLEAN
  /\ ~(_sniffEnabled /\ sniffOnConnectionFault)
  /\ userCalls = 0
  /\ sniffCalls = MaxSniffCalls + 1
  /\ abortCalls = 0
  /\ InitSmall

\* a transport that does not sniff: one request, which the caller aborts
InitAbort ==
  /\ maxRetries \in 0..MaxRetries
  /\ _sniffEnabled = FALSE
  /\ sniffOnConnectionFault = FALSE
  /\ userCalls = 1
  /\ sniffCalls = 0
  /\ abortCalls = 1
  /\ InitSmall

\* a transport that retries and sniffs when a connection fails: one request
\* to a one-node cluster that answers with 200 when it answers
InitFault ==
  /\ maxRetries \in 1..MaxRetries
  /\ _sniffEnabled = FALSE
  /\ sniffOnConnectionFault = TRUE
  /\ userCalls = 1
  /\ sniffCalls = 0
  /\ abortCalls = 0
  /\ input = NoParams
  /\ Conns = {"c1"}
  /\ Statuses = {200}
  /\ InitState
  /\ NoApiCall

InitSniff == InitQuiet \/ InitAlone \/ InitAbort

Init ==
  \/ InitPlain
  \/ InitQuiet /\ sniffCalls = MaxSniffCalls
  \/ InitAbort
  \/ InitFault

Next ==
  \/ \E ch \in Choices : UserRequest(ch)
  \/ \E ch \in Choices : SniffCall(ch)
  \/ \E s \in Slots, kind \in ErrKinds, ch \in Choices : OnConnError(s, kind, ch)
  \/ \E s \in Slots, statusCode \in Statuses, json \in BOOLEAN :
       OnResponse(s, statusCode, json)
  \/ \E s \in Slots : OnStreamError(s)
  \/ \E s \in Slots, payload \in Payloads, ch \in Choices : OnEnd(s, payload, ch)
  \/ Abort
  \/ Tick

Spec == Init /\ [][Next]_vars

\* the sniffing transports
SniffSpec == InitSniff /\ [][Next]_vars

\* the handlers the event loop runs when the network delivers an event
Handlers ==
  \/ \E s \in Slots, kind \in ErrKinds, ch \in Choices : OnConnError(s, kind, ch)
  \/ \E s \in Slots, statusCode \in Statuses, json \in BOOLEAN :
       OnResponse(s, statusCode, json)
  \/ \E s \in Slots, payload \in Payloads, ch \in Choices : OnEnd(s, payload, ch)

\* a periodic sniffer that does not retry next to one request, and a
\* retrying transport that is asked to sniff
InitFair ==
  \/ InitQuiet /\ _sniffEnabled /\ ~sniffOnConnectionFault /\ sniffCalls = 0
  \/ InitAlone /\ ~_sniffEnabled /\ ~sniffOnConnectionFault
  \/ InitAbort

\* every connection.request calls back and every response stream ends
FairSpec == InitFair /\ [][Next]_vars /\ WF_vars(Handlers)

\* a wrapper call on a client whose transport is idle
InitApi ==
  /\ maxRetries = 0
  /\ _sniffEnabled = FALSE
  /\ sniffOnConnectionFault = FALSE
  /\ userCalls = 0
  /\ sniffCalls = 0
  /\ abortCalls = 0
  /\ input = NoParams
  /\ Conns = AllConns
  /\ Statuses = AllStatuses
  /\ InitState
  /\ api \in {[NoApi EXCEPT !.name = n, !.params = p, !.callback = cb] :
               n \in ApiNames, p \in ApiParams, cb \in {Null, "function"}}

ApiNext ==
  \/ ApiCall
  \/ \E err \in {"none", "ResponseError"} : MakeRequestDone(err)

\* the endpoint wrappers applied to every argument list
ApiSpec == InitApi /\ [][ApiNext]_vars

\* ---- properties ---------------------------------------------------------
U == UserSlot

\* C1: a request whose first attempt read the retry budget N, whose HTTP calls
\* all failed at the network level and whose selections all returned a
\* connection, has issued at most N+1 connection.request calls, and exactly
\* N+1 when the terminal error reaches the caller.
C1_AttemptsBounded ==
  (req[U].netOnly /\ ~req[U].nullSel) =>
     /\ calls[U] <= req[U].first + 1
     /\ out[U].via = "net" => calls[U] = req[U].first + 1

\* C2: the caller's callback is invoked at most once per request.
C2_CallbackOnce == cbCount[U] <= 1

\* C2 witness: the caller was answered by a response-stream error, the 'end'
\* handler then resubmitted the request, and the chain has ended since.
C2_Witness ==
  /\ cbCount[U] = 1
  /\ out[U].via = "streamError"
  /\ calls[U] >= 2
  /\ att[U].phase = "none"

\* C3: once a selection has returned null the request is over: the callback
\* has been called with NoLivingConnectionsError (unless a response-stream
\* error had answered the caller before), no attempt is in flight, an attempt
\* in flight always runs on a connection, and a first selection that returns
\* null leaves the request without any connection.request call.
C3_NoLivingConnections ==
  /\ att[U].phase # "none" => att[U].conn \in Conns
  /\ req[U].nullSel =>
       /\ req[U].called
       /\ att[U].phase = "none"
       /\ out[U].err = "NoLivingConnectionsError" \/ out[U].via = "streamError"
  /\ (out[U].via = "select" /\ req[U].params.kRA = Undef) => calls[U] = 0

\* C3 witness: a resubmission found no connection while the budget it read
\* was not exhausted.
C3_Witness ==
  /\ out[U].err = "NoLivingConnectionsError"
  /\ calls[U] >= 1
  /\ ReadAttempts(req[U].params) > 0

\* C4 as stated: whenever a response with status 502/503/504 outside the
\* ignore list has been answered to the caller, in stream mode or not,
\* markDead was called before; and so before every resubmission.
C4_Original ==
  /\ (/\ out[U].via \in {"head", "end"}
      /\ IsRetryStatus(out[U].statusCode)
      /\ out[U].statusCode \notin input.ignore) => out[U].mark = "dead"
  /\ att[U].prev # Undef => att[U].prevMark = "dead"

\* C4 amended: markDead precedes every resubmission and every ResponseError
\* delivered for a 502/503/504 response; a stream-mode response is delivered
\* at once, without an error and without any call to the pool.
C4_MarkDeadFirst ==
  /\ (out[U].err = "ResponseError" /\ IsRetryStatus(out[U].statusCode))
       => out[U].mark = "dead"
  /\ att[U].prev # Undef => att[U].prevMark = "dead"
  /\ out[U].via = "head" => (out[U].err = "none" /\ out[U].mark = "none")

\* C4 witness: a 503 outside the ignore list came back as ResponseError.
C4_Witness ==
  /\ out[U].err = "ResponseError"
  /\ out[U].statusCode = 503
  /\ out[U].mark = "dead"
  /\ calls[U] >= 1

\* C5 as stated: a response whose status is in the ignore list is answered
\* to the caller without an error and after markAlive.
C5_Original ==
  (out[U].via # "none" /\ out[U].statusCode \in input.ignore) =>
     (out[U].err = "none" /\ out[U].mark = "alive")

\* C5 amended: a buffered response that ends with a status of the ignore list
\* and whose body does not fail to deserialize is answered without an error
\* and after markAlive; a stream-mode response with such a status is answered
\* without an error and without markAlive.
C5_IgnoredStatus ==
  /\ (/\ out[U].via = "end"
      /\ out[U].statusCode \in input.ignore
      /\ out[U].err # "DeserializationError")
       => (out[U].err = "none" /\ out[U].mark = "alive")
  /\ (out[U].via = "head" /\ out[U].statusCode \in input.ignore)
       => (out[U].err = "none" /\ out[U].mark = "none")

\* C5 witness: an ignored 503 was answered as a success.
C5_Witness ==
  /\ out[U].via = "end"
  /\ out[U].statusCode = 503
  /\ 503 \in input.ignore
  /\ out[U].err = "none"
  /\ out[U].mark = "alive"

BothBodies == input.body # "none" /\ input.bulkBody # "none"

\* C7 as stated: no connection.request call is issued for params that hold
\* both a body and a bulk body.
C7_Original == calls[U] > 0 => ~BothBodies

\* C7 amended: params that hold both are not rejected for it; the document
\* body wins: it is serialized and sent as application/json, and the bulk
\* body stays where it was.
C7_BodyWins ==
  BothBodies =>
     /\ calls[U] > 0 =>
          /\ req[U].params.ctype = "application/json"
          /\ req[U].params.body =
               (IF ShouldSerialize(input.body) THEN Serialize(input.body)
                ELSE input.body)
          /\ req[U].params.bulkBody = input.bulkBody
     /\ (req[U].called /\ calls[U] = 0) =>
          (out[U].err = "NoLivingConnectionsError"
             \/ (out[U].err = "SerializationError" /\ input.body = "bad"))

\* C7 witness: such a request is on a connection.
C7_Witness ==
  /\ BothBodies
  /\ att[U].phase = "inflight"
  /\ req[U].params.ctype = "application/json"

\* C8: every sniff run ends: _isSniffing does not stay true for ever.
C8_SniffEnds == _isSniffing ~> ~_isSniffing

\* C9: at most one discovery request waits for its callback, and
\* _isSniffing is true exactly while one does.
C9_OneSniff ==
  /\ Cardinality(Running(req)) <= 1
  /\ _isSniffing <=> Running(req) # {}

\* C9 witness: a sniff() call was turned away while a run is in progress.
C9_Witness ==
  /\ _isSniffing
  /\ \E s \in Running(req) : req[s].guarded

\* C10: the attempts value a resubmission reads is non-negative and smaller
\* than the one the attempt before it read (so none follows one that read 0).
C10_Decreasing ==
  att[U].prev # Undef =>
     (att[U].attempts >= 0 /\ att[U].attempts < Val(att[U].prev))

\* the steps of the caller's request that C11 is about: the 'end' handler
\* runs on a response with a status >= 400 other than 502/503/504; the 'end'
\* handler fails to deserialize the payload; the body fails to serialize
C11_Rejected ==
  /\ att[U].phase = "stream"
  /\ att[U].res.statusCode >= 400
  /\ att[U].res.statusCode \notin {502, 503, 504}
  /\ \E payload \in Payloads, ch \in Choices : OnEnd(U, payload, ch)

C11_DeserializeFailed ==
  \E payload \in Payloads, ch \in Choices :
     /\ ShouldDeserialize(req[U].params, att[U].res.json, payload)
     /\ DeserializeFails(payload)
     /\ OnEnd(U, payload, ch)

C11_SerializeFailed ==
  /\ cbCount[U] = 0
  /\ out'[U].err = "SerializationError"

\* the caller has made the request and no HTTP call of it is in progress
C11_Over == req[U].st = "open" /\ att[U].phase = "none"

\* C11: a step in which a response with a status >= 400 other than
\* 502/503/504 ends, in which the response fails to deserialize or in which
\* the body fails to serialize issues no connection.request call and leaves
\* none in progress, whatever budget the attempt had read; and a request of
\* which no call is in progress never issues another one.
C11_NeverRetried ==
  [][/\ (C11_Rejected \/ C11_DeserializeFailed \/ C11_SerializeFailed) =>
          (att'[U].phase = "none" /\ calls'[U] = calls[U])
     /\ C11_Over => (C11_Over' /\ calls'[U] = calls[U])]_vars

\* C11 witness: a 500 came back as ResponseError after the only HTTP call of
\* a request whose first attempt had read a positive budget.
C11_Witness ==
  /\ out[U].err = "ResponseError"
  /\ out[U].statusCode = 500
  /\ req[U].first > 0
  /\ calls[U] = 1
  /\ att[U].phase = "none"

\* C12 as stated: every error the caller's callback received was delivered
\* exactly once and the handler that delivered it emitted 'error' for it.
C12_Original ==
  out[U].err # "none" => (cbCount[U] = 1 /\ out[U].emitErr)

\* C12 amended: every error the caller's callback received was delivered
\* exactly once; 'error' was emitted for it (and 'response' was not) when it
\* is the ConnectionError or TimeoutError of an exhausted network failure or
\* a deserialization failure; a ResponseError came with 'response' and
\* without 'error'; NoLivingConnectionsError, a body-serialization failure
\* and a response-stream error came with neither event.
C12_ErrorEvents ==
  out[U].err # "none" =>
     /\ cbCount[U] = 1
     /\ out[U].via = "net" =>
          (/\ out[U].err \in {"ConnectionError", "TimeoutError"}
           /\ out[U].emitErr /\ ~out[U].emitResp)
     /\ out[U].err = "TimeoutError" => out[U].via = "net"
     /\ out[U].err = "DeserializationError" =>
          (out[U].emitErr /\ ~out[U].emitResp)
     /\ out[U].err = "ResponseError" =>
          (out[U].emitResp /\ ~out[U].emitErr)
     /\ (\/ out[U].err \in {"NoLivingConnectionsError", "SerializationError"}
         \/ out[U].via = "streamError") =>
          (~out[U].emitErr /\ ~out[U].emitResp)

\* C12 witness: a TimeoutError reached the caller together with its 'error'
\* event after the budget was used up.
C12_Witness ==
  /\ out[U].err = "TimeoutError"
  /\ out[U].emitErr
  /\ cbCount[U] = 1
  /\ att[U].phase = "none"

\* C13: an abort() call made while an HTTP call of the request is in flight
\* aborts that call, whether the caller's request() or a retry issued it.
C13_AbortCancels ==
  (req[U].abort.called /\ req[U].abort.inflight # 0) =>
     req[U].abort.target = req[U].abort.inflight

\* C14: a wrapper called without a callback hands makeRequest the request
\* object the callback form builds from the same params, rejects when the
\* callback form yields an error (its own ConfigurationError or the error
\* makeRequest calls back with) and resolves otherwise.
C14_PromiseWraps ==
  (api.form = "promise" /\ api.params.kind = "object") =>
     LET c == CallbackForm(api.name, api.params)
     IN /\ api.request = c.request
        /\ c.err # "none" => api.settled = "rejected"
        /\ api.st = "done" =>
             api.settled = (IF api.err # "none" THEN "rejected"
                            ELSE "resolved")

\* C15: the first attempt of a request reads params.maxRetries as its retry
\* budget whenever the caller supplies it, 0 included, and the maxRetries of
\* the transport otherwise; a request made with maxRetries 0 issues at most
\* one connection.request call.
C15_BudgetFromParams ==
  req[U].st = "open" =>
     /\ req[U].first = (IF input.maxRetries # Undef
                        THEN Val(input.maxRetries) ELSE maxRetries)
     /\ input.maxRetries = {0} => calls[U] <= 1

C17_DeadBeforeSelect ==
  /\ \A s \in Slots : att[s].phase # "none" => att[s].inOrder
  /\ att[U].prev # Undef => req[U].params.kRA = {Val(att[U].prev) - 1}

\* C17 witness: the only call so far of the caller's request failed at the
\* network level; the discovery request started for the fault (the transport
\* sniffs for no other reason) and the retry are both on a connection.
C17_Witness ==
  /\ sniffOnConnectionFault /\ ~_sniffEnabled /\ sniffCalls = 0
  /\ req[U].netOnly
  /\ calls[U] = 2
  /\ att[U].phase = "inflight"
  /\ att[U].prev # Undef
  /\ att[U].prevMark = "dead"
  /\ att[U].inOrder
  /\ \E s \in SniffSlots : att[s].phase = "inflight" /\ att[s].inOrder

C19_BulkContentType ==
  (/\ input.body = "none"
   /\ input.bulkBody # "none"
   /\ att[U].phase = "inflight") =>
     req[U].params.ctype = "application/x-ndjson"

\* C20: every sniff(callback) call of the caller is answered: the callbacks
\* that have not been invoked do not stay uninvoked for ever.
C20_SniffCallback == (sniffOwed > 0) ~> (sniffOwed = 0)

====
